---- MODULE Spec2Model ----
(***************************************************************************)
(* RelatedObjectsCollector (related_objects_fetcher.py): the deletion      *)
(* preview built from a record's reverse relationships.                    *)
(*                                                                         *)
(* A Python dict is a sequence of [key, value] entries in insertion order. *)
(* An object is a function from the names of the attributes that have been *)
(* set on it to their values, so hasattr is membership in its DOMAIN.      *)
(* Dicts that outlive a call live in `heap`; an attribute holding a dict   *)
(* holds its address, so two attributes can hold the same dict.            *)
(***************************************************************************)
EXTENDS Integers, Sequences, FiniteSets, TLC

VARIABLES heap, calls

vars == <<heap, calls>>

-----------------------------------------------------------------------------
(* django.db.models.deletion policies, and two values that are none of them *)

CASCADE == "CASCADE"

SET_NULL == "SET_NULL"

DO_NOTHING == "DO_NOTHING"

PROTECT == "PROTECT"

SET_DEFAULT == "SET_DEFAULT"

NoOnDelete == "None"

-----------------------------------------------------------------------------
(* Bounds and input families *)

MaxRels == 2

MaxCollectors == 2

MaxTypes == 25

Models == {1, 2}

RecordLists == {<<>>, <<"r1">>, <<"r2", "r3">>}

Relation(on_delete, related_model, kind, accessor, records) ==
    [on_delete |-> on_delete, related_model |-> related_model,
     one_to_many |-> (kind = "one_to_many"), one_to_one |-> (kind = "one_to_one"),
     accessor |-> accessor, records |-> records]

\* What _meta.related_objects can hold.  A reverse foreign key is one_to_many
\* and its manager is always present; a reverse one-to-one has its accessor
\* exactly when its single referencing record exists; a many-to-many
\* relation carries no on_delete at all.  `records` is what
\* <accessor>.all() returns.
Relations ==
    {Relation(p, m, "one_to_many", TRUE, q) :
        p \in {CASCADE, SET_NULL, DO_NOTHING, PROTECT, SET_DEFAULT},
        m \in Models, q \in RecordLists}
    \cup
    {Relation(p, m, "one_to_one", FALSE, <<>>) :
        p \in {CASCADE, SET_NULL, DO_NOTHING, PROTECT, SET_DEFAULT},
        m \in Models}
    \cup
    {Relation(p, m, "one_to_one", TRUE, <<"r1">>) :
        p \in {CASCADE, SET_NULL, DO_NOTHING, PROTECT, SET_DEFAULT},
        m \in Models}
    \cup
    {Relation(NoOnDelete, m, "many_to_many", TRUE, q) :
        m \in Models, q \in {<<>>, <<"r1">>}}

\* the relationship lists of length n
RelLists(n) == [1..n -> Relations]

\* Constructor arguments: a model instance, the model class itself, or a
\* value that is no model at all (it has no _meta).
ModelInstance(related_objects) ==
    [kind |-> "instance", model_name |-> 1, related_objects |-> related_objects]

ModelClass(related_objects) ==
    [kind |-> "class", model_name |-> 1, related_objects |-> related_objects]

OtherValue == [kind |-> "other", model_name |-> 1, related_objects |-> <<>>]

NonInstances ==
    {ModelClass(<<>>), ModelClass(<<Relation(CASCADE, 2, "one_to_many", TRUE, <<"r1">>)>>),
     OtherValue}

-----------------------------------------------------------------------------
(* Python objects and dicts *)

NewObject == [a \in {} |-> TRUE]

hasattr(obj, name) == name \in DOMAIN obj

setattr(obj, name, value) ==
    [a \in (DOMAIN obj) \cup {name} |-> IF a = name THEN value ELSE obj[a]]

EmptyDict == <<>>

DictKeys(d) == {d[i].key : i \in 1..Len(d)}

DictGet(d, k) == d[CHOOSE i \in 1..Len(d) : d[i].key = k].value

\* d[k] = v
DictSet(d, k, v) ==
    IF k \in DictKeys(d)
    THEN [i \in 1..Len(d) |-> IF d[i].key = k THEN [key |-> k, value |-> v] ELSE d[i]]
    ELSE Append(d, [key |-> k, value |-> v])

\* isinstance(instance, Model)
isinstance(instance) == instance.kind = "instance"

\* instance._meta exists on model instances and on model classes
HasMeta(instance) == instance.kind \in {"instance", "class"}

-----------------------------------------------------------------------------
(* class RelatedObjectsCollector: class attributes *)

per_page == 10

\* address of the dict made by the class statement `_related_objects = {}`
ClassRelatedObjects == 1

\* self._related_objects: the instance attribute if set, else the class one
GetRelatedObjects(self) ==
    IF hasattr(self, "_related_objects") THEN self._related_objects
    ELSE ClassRelatedObjects

-----------------------------------------------------------------------------
(* PaginatorObject and Paginator *)

PaginatorObject(key, value) == [data |-> <<[key |-> key, value |-> value]>>]

\* mutant: the items are built from reversed(objects.items())
PaginatorItems_reversed(objects) ==
    [i \in 1..Len(objects) |->
        PaginatorObject(objects[Len(objects) + 1 - i].key, objects[Len(objects) + 1 - i].value)]

\* [PaginatorObject(model, related_items) for model, related_items in objects.items()]
PaginatorItems(objects) ==
    [i \in 1..Len(objects) |-> PaginatorObject(objects[i].key, objects[i].value)]

_create_paginator(self, values) ==
    setattr(self, "paginator", [object_list |-> values, per_page |-> per_page])

\* Paginator.num_pages with the defaults orphans=0, allow_empty_first_page=True
NumPages(paginator) ==
    LET count == Len(paginator.object_list)
        hits  == IF count > 1 THEN count ELSE 1
    IN  (hits + paginator.per_page - 1) \div paginator.per_page

\* Paginator.page(number).object_list
Page(paginator, number) ==
    LET count  == Len(paginator.object_list)
        bottom == (number - 1) * paginator.per_page
        top    == IF bottom + paginator.per_page >= count THEN count
                  ELSE bottom + paginator.per_page
    IN  SubSeq(paginator.object_list, bottom + 1, top)

-----------------------------------------------------------------------------
(* RelatedObjectsCollector methods *)

\* mutant: the fall-through value is "delete"
_get_on_delete_action_else_delete(relation) ==
    IF relation.on_delete = SET_NULL THEN "set_null"
    ELSE IF relation.on_delete = DO_NOTHING THEN "do_nothing"
    ELSE IF relation.on_delete = PROTECT THEN "protect"
    ELSE "delete"

_get_on_delete_action(relation) ==
    IF relation.on_delete = CASCADE THEN "delete"
    ELSE IF relation.on_delete = SET_NULL THEN "set_null"
    ELSE IF relation.on_delete = DO_NOTHING THEN "do_nothing"
    ELSE IF relation.on_delete = PROTECT THEN "protect"
    ELSE "unknown"

NoReason == <<>>

ProtectReason(related_model, instance) ==
    <<"The related model ", related_model,
      " has a relationship with the model ", instance.model_name,
      ", and this relationship is set to PROTECT, which prevents the deletion of this instance.">>

DoNothingReason(related_model, instance) ==
    <<"The instance of ", instance.model_name,
      " you are trying to delete has existing related instances in ", related_model,
      ". The relationship between these models is set to DO_NOTHING, ...">>

\* mutant: the reason is not set
_handle_protect_no_reason(self, related_model) ==
    setattr(self, "can_be_deleted", FALSE)

_handle_protect(self, related_model) ==
    setattr(setattr(self, "can_be_deleted", FALSE),
            "reason", ProtectReason(related_model, self.instance))

\* mutant: can_be_deleted is not cleared
_handle_do_nothing_keeps_flag(self, related_model) ==
    setattr(self, "reason", DoNothingReason(related_model, self.instance))

_handle_do_nothing(self, related_model) ==
    setattr(setattr(self, "can_be_deleted", FALSE),
            "reason", DoNothingReason(related_model, self.instance))

\* The frame of _collect_objects: self, the local dict `objects`, how the
\* loop left (`exit`), and the calls made on the relations so far:
\* classified (line 45), fetched (line 57), collected (lines 66-69).
Frame(self) ==
    [self |-> self, objects |-> EmptyDict, exit |-> "loop",
     classified |-> {}, fetched |-> {}, collected |-> {}]

\* objects[related_model] = {on_delete: query}, or
\* objects[related_model][on_delete].extend(query), which raises KeyError
\* when the inner dict has no such key
AddObjects(f, i, related_model, on_delete, query) ==
    IF related_model \notin DictKeys(f.objects)
    THEN [f EXCEPT !.objects = DictSet(@, related_model, <<[key |-> on_delete, value |-> query]>>),
                   !.collected = @ \cup {i}]
    ELSE LET inner == DictGet(f.objects, related_model)
         IN  IF on_delete \in DictKeys(inner)
             THEN [f EXCEPT !.objects = DictSet(@, related_model,
                                           DictSet(inner, on_delete, DictGet(inner, on_delete) \o query)),
                            !.collected = @ \cup {i}]
             ELSE [f EXCEPT !.exit = "KeyError"]

\* mutant: the return after _handle_protect is missing
OnProtect_no_return(f, related_model) ==
    [f EXCEPT !.self = _handle_protect(@, related_model)]

\* if on_delete == 'protect': self._handle_protect(related_model); return
OnProtect(f, related_model) ==
    [f EXCEPT !.self = _handle_protect(@, related_model), !.exit = "return"]

\* if len(query) and on_delete == 'do_nothing':
\*     self._handle_do_nothing(related_model); return
OnDoNothing(f, related_model) ==
    [f EXCEPT !.self = _handle_do_nothing(@, related_model), !.exit = "return"]

\* One iteration of `for relation in self.related_objects`
LoopBody(f0, i) ==
    LET relation      == f0.self.related_objects[i]
        on_delete     == _get_on_delete_action(relation)
        related_model == relation.related_model
        f             == [f0 EXCEPT !.classified = @ \cup {i}]
    IN  IF on_delete = "protect"
        THEN OnProtect(f, related_model)
        ELSE IF /\ relation.one_to_many \/ relation.one_to_one
                /\ on_delete \in {"delete", "set_null", "do_nothing", "protect"}
                /\ relation.accessor
        THEN LET query == relation.records
                 g     == [f EXCEPT !.fetched = @ \cup {i}]
             IN  IF Len(query) # 0 /\ on_delete = "do_nothing"
                 THEN OnDoNothing(g, related_model)
                 ELSE IF query # <<>>
                 THEN AddObjects(g, i, related_model, on_delete, query)
                 ELSE g
        ELSE f

RECURSIVE Loop(_, _)
Loop(f, i) ==
    IF i > Len(f.self.related_objects) \/ f.exit # "loop" THEN f
    ELSE Loop(LoopBody(f, i), i + 1)

\* mutant: self._related_objects.update(objects), which fills the dict the
\* attribute already names, the class-level one
StoreObjects_in_class_dict(h, self, objects) ==
    [heap |-> [h EXCEPT ![GetRelatedObjects(self)] = @ \o objects], self |-> self]

\* After the loop: self._related_objects = objects (a new dict, stored at a
\* new address), the paginator, is_empty.
StoreObjects(h, self, objects) ==
    [heap |-> Append(h, objects), self |-> setattr(self, "_related_objects", Len(h) + 1)]

\* mutant: is_empty is left as __init__ set it
IsEmpty_stale(related_objects) == TRUE

\* len(self._related_objects.values()) == 0
IsEmpty(related_objects) == Len(related_objects) = 0

\* mutant: a blocked scan stores what it had collected before it returns
_collect_objects_keeps_partial(h, self) ==
    LET f == Loop(Frame(self), 1)
        s == StoreObjects(h, f.self, f.objects)
    IN  IF f.exit = "loop"
        THEN LET s1 == _create_paginator(s.self, PaginatorItems(f.objects))
                 s2 == setattr(s1, "is_empty", IsEmpty(s.heap[GetRelatedObjects(s1)]))
             IN  [heap |-> s.heap, self |-> s2, frame |-> f, raised |-> "none"]
        ELSE IF f.exit = "return"
        THEN [heap |-> s.heap, self |-> s.self, frame |-> f, raised |-> "none"]
        ELSE [heap |-> h, self |-> f.self, frame |-> f, raised |-> "KeyError"]

_collect_objects(h, self) ==
    LET f == Loop(Frame(self), 1)
    IN  IF f.exit = "loop"
        THEN LET s  == StoreObjects(h, f.self, f.objects)
                 s1 == _create_paginator(s.self, PaginatorItems(f.objects))
                 s2 == setattr(s1, "is_empty", IsEmpty(s.heap[GetRelatedObjects(s1)]))
             IN  [heap |-> s.heap, self |-> s2, frame |-> f,
                  raised |-> "none"]
        ELSE [heap |-> h, self |-> f.self, frame |-> f,
              raised |-> IF f.exit = "KeyError" THEN "KeyError" ELSE "none"]

\* RelatedObjectsCollector(instance).  The message of the TypeError reads
\* instance._meta, which raises AttributeError when there is no _meta.
__init__(h, instance) ==
    IF ~isinstance(instance)
    THEN [heap |-> h, self |-> NewObject, frame |-> Frame(NewObject),
          raised |-> IF HasMeta(instance) THEN "TypeError" ELSE "AttributeError"]
    ELSE LET s0 == setattr(NewObject, "instance", instance)
             s1 == setattr(s0, "meta", [model_name |-> instance.model_name])
             s2 == setattr(s1, "related_objects", instance.related_objects)
             s3 == setattr(s2, "is_empty", TRUE)
             s4 == setattr(s3, "can_be_deleted", TRUE)
             s5 == setattr(s4, "reason", NoReason)
             c  == _collect_objects(h, s5)
         IN  IF c.raised # "none" THEN c
             ELSE [c EXCEPT !.self = setattr(@, "data", GetRelatedObjects(c.self))]

-----------------------------------------------------------------------------
(* The state machine: every action is one constructor call *)

Init ==
    /\ heap = <<EmptyDict>>
    /\ calls = <<>>

\* collector = RelatedObjectsCollector(instance)
New(instance) ==
    LET r == __init__(heap, instance)
    IN  /\ heap' = r.heap
        /\ calls' = Append(calls, [arg |-> instance, self |-> r.self, raised |-> r.raised,
                                   classified |-> r.frame.classified,
                                   fetched |-> r.frame.fetched,
                                   collected |-> r.frame.collected,
                                   exit |-> r.frame.exit])

\* One construction from any argument
Next ==
    /\ calls = <<>>
    /\ \/ \E n \in 0..MaxRels : \E l \in RelLists(n) : New(ModelInstance(l))
       \/ \E instance \in NonInstances : New(instance)

Spec == Init /\ [][Next]_vars

-----------------------------------------------------------------------------
(* A sequence of constructions: the collectors share the class, and with   *)
(* it the class-level _related_objects dict.                               *)

SeqRelations ==
    {Relation(p, 1, "one_to_many", TRUE, <<"r1">>) : p \in {CASCADE, SET_NULL, DO_NOTHING}}
    \cup
    {Relation(p, 1, "one_to_many", TRUE, <<>>) : p \in {DO_NOTHING, PROTECT}}

SeqRelLists ==
    {<<>>} \cup {<<a>> : a \in SeqRelations} \cup {<<a, b>> : a \in SeqRelations, b \in SeqRelations}

SeqArgs == {ModelInstance(l) : l \in SeqRelLists} \cup {ModelClass(<<>>), OtherValue}

NextSeq ==
    /\ Len(calls) < MaxCollectors
    /\ \E instance \in SeqArgs : New(instance)

SpecSeq == Init /\ [][NextSeq]_vars

-----------------------------------------------------------------------------
(* Records referenced by many types: one relation per type, in ascending   *)
(* or descending order of the type, optionally each type a second time.    *)

TypeRelations(n, on_delete, records, descending) ==
    [i \in 1..n |-> Relation(on_delete, IF descending THEN n + 1 - i ELSE i,
                             "one_to_many", TRUE, records)]

PagArgs ==
    {ModelInstance(IF twice THEN l \o l ELSE l) :
        l \in {TypeRelations(n, p, q, d) :
                  n \in 0..MaxTypes, p \in {CASCADE, SET_NULL},
                  q \in {<<"r1">>, <<"r2", "r3">>}, d \in BOOLEAN},
        twice \in BOOLEAN}

NextPag ==
    /\ calls = <<>>
    /\ \E instance \in PagArgs : New(instance)

SpecPag == Init /\ [][NextPag]_vars

-----------------------------------------------------------------------------
(* Vocabulary of the properties, stated on the constructor's argument      *)

Rels(c) == c.arg.related_objects

\* a call that returned a collector
Completed(c) == isinstance(c.arg) /\ c.raised = "none"

\* the public data dict of a collector
Data(c) == heap[c.self.data]

HasDependents(relation) == relation.accessor /\ relation.records # <<>>

Blocking(relation) ==
    \/ relation.on_delete = PROTECT
    \/ relation.on_delete = DO_NOTHING /\ HasDependents(relation)

BlockingAt(rels) == {i \in 1..Len(rels) : Blocking(rels[i])}

Min(S) == CHOOSE x \in S : \A y \in S : x <= y

Max(S) == CHOOSE x \in S : \A y \in S : x >= y

-----------------------------------------------------------------------------
\* C1: in every completed construction, can_be_deleted is false exactly when
\* the relationship list holds a PROTECT relationship or a DO_NOTHING
\* relationship with at least one dependent record.
C1_DeletableIffNoBlocking ==
    \A k \in 1..Len(calls) :
        Completed(calls[k]) =>
            (calls[k].self.can_be_deleted = FALSE <=> BlockingAt(Rels(calls[k])) # {})

\* a completed scan that DO_NOTHING with a dependent blocked, after a
\* relationship that was collected, with no PROTECT in the list
C1_Witness ==
    \E k \in 1..Len(calls) :
        /\ Completed(calls[k])
        /\ Len(Rels(calls[k])) = 2
        /\ calls[k].collected = {1}
        /\ Rels(calls[k])[2].on_delete = DO_NOTHING
        /\ HasDependents(Rels(calls[k])[2])
        /\ calls[k].self.can_be_deleted = FALSE

-----------------------------------------------------------------------------
\* C2: when the scan reaches (classifies) a PROTECT relationship, with or
\* without dependents, can_be_deleted is false, that relationship's accessor
\* is not fetched, and no later relationship is classified, fetched or
\* collected.
C2_ProtectStopsScan ==
    \A k \in 1..Len(calls) :
        \A i \in calls[k].classified :
            Rels(calls[k])[i].on_delete = PROTECT =>
                /\ calls[k].raised = "none"
                /\ calls[k].self.can_be_deleted = FALSE
                /\ i \notin calls[k].fetched
                /\ \A j \in (i + 1)..Len(Rels(calls[k])) :
                      /\ j \notin calls[k].classified
                      /\ j \notin calls[k].fetched
                      /\ j \notin calls[k].collected

\* a PROTECT relationship without dependents, followed by a CASCADE
\* relationship that has records
C2_Witness ==
    \E k \in 1..Len(calls) :
        /\ Completed(calls[k])
        /\ Len(Rels(calls[k])) = 2
        /\ Rels(calls[k])[1].on_delete = PROTECT
        /\ ~HasDependents(Rels(calls[k])[1])
        /\ Rels(calls[k])[2].on_delete = CASCADE
        /\ HasDependents(Rels(calls[k])[2])
        /\ 1 \in calls[k].classified

-----------------------------------------------------------------------------
\* the key under which _get_on_delete_action files a collected policy
PolicyKey(policy) == IF policy = CASCADE THEN "delete" ELSE "set_null"

\* a relationship whose records the grouped result is to hold under [T][P]
Collectable(relation, T, P) ==
    /\ relation.related_model = T
    /\ relation.on_delete = P
    /\ relation.one_to_many \/ relation.one_to_one
    /\ HasDependents(relation)

\* the fetched lists of the relationships of type T and policy P among the
\* first n, concatenated in scan order
RECURSIVE Expected(_, _, _, _)
Expected(rels, n, T, P) ==
    IF n = 0 THEN <<>>
    ELSE Expected(rels, n - 1, T, P)
         \o (IF Collectable(rels[n], T, P) THEN rels[n].records ELSE <<>>)

TypesOf(rels) == {rels[i].related_model : i \in 1..Len(rels)}

\* d is the grouped result of rels: exactly the type/policy pairs with a
\* non-empty expected list, each holding that list
IsGroupedResult(d, rels) ==
    /\ DictKeys(d) = {T \in TypesOf(rels) :
                        \E P \in {CASCADE, SET_NULL} : Expected(rels, Len(rels), T, P) # <<>>}
    /\ \A T \in DictKeys(d) :
          /\ DictKeys(DictGet(d, T)) =
                {PolicyKey(P) : P \in {Q \in {CASCADE, SET_NULL} :
                                          Expected(rels, Len(rels), T, Q) # <<>>}}
          /\ \A P \in {CASCADE, SET_NULL} :
                Expected(rels, Len(rels), T, P) # <<>> =>
                    DictGet(DictGet(d, T), PolicyKey(P)) = Expected(rels, Len(rels), T, P)

\* C3: for every instance whose list holds no blocking relationship,
\* construction completes and data[T][P] is the concatenation in scan order
\* of the non-empty fetched lists of type T and policy P, also when one type
\* is reached under several policies, and no pair holds an empty list.
C3_GroupedResultComplete ==
    \A k \in 1..Len(calls) :
        (isinstance(calls[k].arg) /\ BlockingAt(Rels(calls[k])) = {}) =>
            /\ calls[k].raised = "none"
            /\ IsGroupedResult(Data(calls[k]), Rels(calls[k]))

-----------------------------------------------------------------------------
\* a relationship the scan is to pass over
Skipped(relation) ==
    /\ relation.on_delete # PROTECT
    /\ \/ relation.on_delete \notin {CASCADE, SET_NULL, DO_NOTHING, PROTECT}
       \/ ~relation.accessor
       \/ relation.records = <<>>

WithoutSkipped(rels) == SelectSeq(rels, LAMBDA relation : ~Skipped(relation))

\* what a caller sees of a construction: the exception if any, and the
\* attributes can_be_deleted, reason, is_empty and data (by content)
Outcome(raised, self, h) ==
    [raised |-> raised,
     seen |-> [a \in (DOMAIN self) \cap {"can_be_deleted", "reason", "is_empty", "data"} |->
                  IF a = "data" THEN h[self.data] ELSE self[a]]]

OutcomeOfCall(c) == Outcome(c.raised, c.self, heap)

OutcomeAlone(instance) ==
    LET r == __init__(<<EmptyDict>>, instance)
    IN  Outcome(r.raised, r.self, r.heap)

\* C4: removing every skipped relationship (policy UNKNOWN, accessor absent,
\* or empty fetched list; policy not PROTECT) leaves can_be_deleted, reason,
\* data and is_empty the same; no skipped relationship is where an exception
\* is raised, and the scan goes on to the relationship after it.
C4_SkipsAreNeutral ==
    \A k \in 1..Len(calls) :
        isinstance(calls[k].arg) =>
            /\ OutcomeOfCall(calls[k]) = OutcomeAlone(ModelInstance(WithoutSkipped(Rels(calls[k]))))
            /\ \A i \in calls[k].classified :
                  Skipped(Rels(calls[k])[i]) =>
                      /\ i < Len(Rels(calls[k])) => i + 1 \in calls[k].classified
                      /\ ~(calls[k].raised # "none" /\ i = Max(calls[k].classified))

\* a skipped relationship of unknown policy that has records, followed by a
\* CASCADE relationship whose records are collected
C4_Witness ==
    \E k \in 1..Len(calls) :
        /\ Completed(calls[k])
        /\ Len(Rels(calls[k])) = 2
        /\ Rels(calls[k])[1].on_delete = SET_DEFAULT
        /\ HasDependents(Rels(calls[k])[1])
        /\ calls[k].collected = {2}
        /\ Len(Data(calls[k])) = 1

-----------------------------------------------------------------------------
\* C8: after a scan that completes without blocking, is_empty is true exactly
\* when data has no entries; a record with no relationships gives
\* can_be_deleted = true, is_empty = true and empty data.
C8_IsEmptyIffNoData ==
    \A k \in 1..Len(calls) :
        (Completed(calls[k]) /\ calls[k].self.can_be_deleted) =>
            /\ calls[k].self.is_empty <=> (Data(calls[k]) = EmptyDict)
            /\ Rels(calls[k]) = <<>> =>
                  calls[k].self.is_empty /\ Data(calls[k]) = EmptyDict

\* an unblocked scan that collected records: data has an entry
C8_Witness ==
    \E k \in 1..Len(calls) :
        /\ Completed(calls[k])
        /\ calls[k].self.can_be_deleted
        /\ calls[k].collected # {}
        /\ Data(calls[k]) # EmptyDict
        /\ ~calls[k].self.is_empty

-----------------------------------------------------------------------------
\* C9: whenever the scan is blocked, the public data is empty and is_empty
\* stays true, whatever was collected before the blocking relationship.
C9_BlockedDiscardsGroups ==
    \A k \in 1..Len(calls) :
        (Completed(calls[k]) /\ ~calls[k].self.can_be_deleted) =>
            /\ Data(calls[k]) = EmptyDict
            /\ calls[k].self.is_empty = TRUE

\* a blocked scan that had collected the records of an earlier relationship
C9_Witness ==
    \E k \in 1..Len(calls) :
        /\ Completed(calls[k])
        /\ ~calls[k].self.can_be_deleted
        /\ calls[k].collected = {1}
        /\ Rels(calls[k])[2].on_delete = PROTECT

-----------------------------------------------------------------------------
\* the reason the first blocking relationship of the list is to leave
ReasonOfFirstBlocking(instance) ==
    LET relation == instance.related_objects[Min(BlockingAt(instance.related_objects))]
    IN  IF relation.on_delete = PROTECT
        THEN ProtectReason(relation.related_model, instance)
        ELSE DoNothingReason(relation.related_model, instance)

\* C10: in every completed construction the paginator attribute exists iff
\* can_be_deleted is true iff reason is empty; a blocked scan leaves the
\* reason of the first blocking relationship in scan order.
C10_PaginatorIffDeletable ==
    \A k \in 1..Len(calls) :
        Completed(calls[k]) =>
            /\ hasattr(calls[k].self, "paginator") <=> calls[k].self.can_be_deleted
            /\ calls[k].self.can_be_deleted <=> (calls[k].self.reason = NoReason)
            /\ ~calls[k].self.can_be_deleted =>
                  /\ BlockingAt(Rels(calls[k])) # {}
                  /\ calls[k].self.reason = ReasonOfFirstBlocking(calls[k].arg)

\* a scan blocked by its second relationship, a PROTECT one, after a
\* DO_NOTHING relationship without dependents; a blocking one follows
C10_Witness ==
    \E k \in 1..Len(calls) :
        /\ Completed(calls[k])
        /\ Len(Rels(calls[k])) = 2
        /\ Rels(calls[k])[1].on_delete = DO_NOTHING
        /\ ~HasDependents(Rels(calls[k])[1])
        /\ Rels(calls[k])[2].on_delete = PROTECT
        /\ ~hasattr(calls[k].self, "paginator")
        /\ calls[k].self.reason # NoReason

-----------------------------------------------------------------------------
\* the same construction with no other collector ever built
Alone(instance) == __init__(<<EmptyDict>>, instance)

\* C5: in every sequence of constructions, each collector's data and
\* can_be_deleted are those of a collector built alone from the same record
\* state, whatever was built before or after it (so no construction changes
\* an earlier collector's data, and two collectors of one record state
\* agree), and the class-level _related_objects dict stays empty.
C5_ConstructionsIndependent ==
    /\ heap[ClassRelatedObjects] = EmptyDict
    /\ \A k \in 1..Len(calls) :
          /\ calls[k].raised = Alone(calls[k].arg).raised
          /\ Completed(calls[k]) =>
                /\ Data(calls[k]) = Alone(calls[k].arg).heap[Alone(calls[k].arg).self.data]
                /\ calls[k].self.can_be_deleted = Alone(calls[k].arg).self.can_be_deleted
    /\ \A j \in 1..Len(calls), k \in 1..Len(calls) :
          (Completed(calls[j]) /\ Completed(calls[k]) /\ calls[j].arg = calls[k].arg) =>
              /\ Data(calls[j]) = Data(calls[k])
              /\ calls[j].self.can_be_deleted = calls[k].self.can_be_deleted

\* an unblocked collector holding records, then a blocked collector whose
\* data is the class-level dict
C5_Witness ==
    /\ Len(calls) = 2
    /\ Completed(calls[1])
    /\ Data(calls[1]) # EmptyDict
    /\ Completed(calls[2])
    /\ ~calls[2].self.can_be_deleted
    /\ calls[2].self.data = ClassRelatedObjects

-----------------------------------------------------------------------------
\* C6: constructing from anything that is not a model instance fails with a
\* TypeError, before any relationship is classified and with no attribute
\* set on the collector.
C6_NonInstanceTypeError ==
    \A k \in 1..Len(calls) :
        ~isinstance(calls[k].arg) =>
            /\ calls[k].raised = "TypeError"
            /\ calls[k].self = NewObject
            /\ calls[k].classified = {}

-----------------------------------------------------------------------------
RECURSIVE Pages(_, _)
\* the first n pages of the paginator, one after the other
Pages(paginator, n) ==
    IF n = 0 THEN <<>> ELSE Pages(paginator, n - 1) \o Page(paginator, n)

\* C7: after an unblocked scan the paginated view holds one item per
\* referencing type of data, in the order of data, each exposing the type
\* with its grouping; the pages hold 10 items each and the last one the
\* remainder (25 types: 3 pages of 10, 10 and 5 items).
C7_OneItemPerTypeInPagesOfTen ==
    \A k \in 1..Len(calls) :
        (Completed(calls[k]) /\ calls[k].self.can_be_deleted) =>
            LET paginator == calls[k].self.paginator
                items     == paginator.object_list
                n         == Len(Data(calls[k]))
                last      == NumPages(paginator)
            IN  /\ Len(items) = n
                /\ \A i \in 1..n :
                      /\ Len(items[i].data) = 1
                      /\ items[i].data[1].key = Data(calls[k])[i].key
                      /\ items[i].data[1].value = Data(calls[k])[i].value
                /\ \A i \in 1..n, j \in 1..n :
                      items[i].data[1].key = items[j].data[1].key => i = j
                /\ Pages(paginator, last) = items
                /\ \A number \in 1..(last - 1) : Len(Page(paginator, number)) = 10
                /\ Len(Page(paginator, last)) = n - 10 * (last - 1)
                /\ n > 0 => Len(Page(paginator, last)) \in 1..10
                /\ n = 25 => /\ last = 3
                             /\ Len(Page(paginator, 1)) = 10
                             /\ Len(Page(paginator, 2)) = 10
                             /\ Len(Page(paginator, 3)) = 5

\* 25 referencing types, reached in descending order and each reached twice
C7_Witness ==
    \E k \in 1..Len(calls) :
        /\ Completed(calls[k])
        /\ Len(Rels(calls[k])) = 50
        /\ Len(Data(calls[k])) = 25
        /\ Data(calls[k])[1].key = 25
        /\ NumPages(calls[k].self.paginator) = 3

====
